---- MODULE Spec2Model ----
(***************************************************************************)
(* Model of the XML navigation and search engine of src-tauri/src/xml_ops.rs*)
(* A file is a sequence of bytes (one-character strings).  The tokenizer    *)
(* quick_xml::Reader (0.31 API: check_end_names(bool), usize positions) is  *)
(* modelled on the bytes; the operations are translated from the source.    *)
(***************************************************************************)
EXTENDS Integers, Sequences, FiniteSets, TLC

(***************************************************************************)
(* Bounds of the model.                                                    *)
(***************************************************************************)
\* number of tokens (tags, text runs, comments) a document is built from
MaxTokens == 4
\* the same, where cancel() runs beside a search
MaxTokensCancel == 3
\* the same, where two searches run beside each other
MaxTokensTwo == 3
\* largest ancestor depth asked of find_ancestor
MaxDepthArg == 2

(***************************************************************************)
(* Bytes and byte strings.                                                 *)
(***************************************************************************)
NoBytes == <<>>

\* bytes [a, b) of f, offsets counted from 0 as in the source
Slice(f, a, b) == SubSeq(f, a + 1, b)

ByteAt(f, o) == f[o + 1]

Min(a, b) == IF a < b THEN a ELSE b

\* F applied to the value of v: v is computed once, however often F uses it
With(v, F(_)) == CHOOSE y \in {F(x) : x \in {v}} : TRUE

IsWs(c) == c \in {" ", "\n", "\t", "\r"}

\* u8::to_ascii_lowercase on the alphabet of the model
Lower(c) ==
    CASE c = "A" -> "a"
      [] c = "B" -> "b"
      [] c = "I" -> "i"
      [] c = "D" -> "d"
      [] OTHER -> c

RECURSIVE LowerAll(_)
LowerAll(s) == IF s = <<>> THEN <<>> ELSE <<Lower(Head(s))>> \o LowerAll(Tail(s))

\* offset of the first byte c at or after offset o (slice::iter().position,
\* memchr); Len(f) when there is none
RECURSIVE FindByte(_, _, _)
FindByte(f, c, o) ==
    IF o >= Len(f) THEN Len(f)
    ELSE IF f[o + 1] = c THEN o
    ELSE FindByte(f, c, o + 1)

RECURSIVE Flatten(_)
Flatten(ss) == IF ss = <<>> THEN <<>> ELSE Head(ss) \o Flatten(Tail(ss))

\* number of newline bytes in s
RECURSIVE CountNl(_)
CountNl(s) ==
    IF s = <<>> THEN 0
    ELSE (IF Head(s) = "\n" THEN 1 ELSE 0) + CountNl(Tail(s))

(***************************************************************************)
(* Documents: a document is the concatenation of tokens.                   *)
(***************************************************************************)
TokenIds == {"oa", "ca", "ob", "cb", "eb", "nl", "cm"}

TokenBytes(t) ==
    CASE t = "oa" -> <<"<", "a", ">">>
      [] t = "ca" -> <<"<", "/", "a", ">">>
      [] t = "ob" -> <<"<", "b", ">">>
      [] t = "cb" -> <<"<", "/", "b", ">">>
      [] t = "eb" -> <<"<", "b", " ", "i", "d", "=", "\"", "a", "\"", "/", ">">>
      [] t = "nl" -> <<"\n">>
      [] t = "cm" -> <<"<", "!", "-", "-", "<", "b", "/", ">", "-", "-", ">">>

RECURSIVE Render(_)
Render(ts) == IF ts = <<>> THEN <<>> ELSE TokenBytes(Head(ts)) \o Render(Tail(ts))

(***************************************************************************)
(* quick_xml::Reader::read_event_into on the bytes of the file.            *)
(* An event is [kind, name, content]; name and content are byte strings.   *)
(***************************************************************************)
Event(k, n, c) == [kind |-> k, name |-> n, content |-> c]

\* offset of the '>' ending a start tag, quotes respected (read_element);
\* Len(f) when the input ends first.  q is the open quote or "".
RECURSIVE ElementEnd(_, _, _)
ElementEnd(f, o, q) ==
    IF o >= Len(f) THEN Len(f)
    ELSE LET c == f[o + 1] IN
         IF q = "" THEN
              IF c = ">" THEN o
              ELSE IF c \in {"\"", "'"} THEN ElementEnd(f, o + 1, c)
              ELSE ElementEnd(f, o + 1, "")
         ELSE IF c = q THEN ElementEnd(f, o + 1, "")
              ELSE ElementEnd(f, o + 1, q)

\* offset of the '>' ending a comment whose '!' is at offset bang: the first
\* '>' preceded by "--", at least five bytes after the '!' (BangType::parse)
RECURSIVE CommentEnd(_, _, _)
CommentEnd(f, bang, o) ==
    IF o >= Len(f) THEN Len(f)
    ELSE IF /\ f[o + 1] = ">"
            /\ o - bang >= 5
            /\ f[o] = "-"
            /\ f[o - 1] = "-"
         THEN o
    ELSE CommentEnd(f, bang, o + 1)

\* index (from 0) of the first whitespace byte of c at or after i, Len(c) if none
RECURSIVE FirstWs(_, _)
FirstWs(c, i) ==
    IF i >= Len(c) THEN Len(c)
    ELSE IF IsWs(c[i + 1]) THEN i
    ELSE FirstWs(c, i + 1)

RECURSIVE TrimWsEnd(_)
TrimWsEnd(c) ==
    IF c = <<>> THEN c
    ELSE IF IsWs(c[Len(c)]) THEN TrimWsEnd(SubSeq(c, 1, Len(c) - 1))
    ELSE c

\* ReaderState::emit_start: a tag whose content ends in '/' is Empty
EmitStart(content) ==
    With(<<Len(content), FirstWs(content, 0)>>, LAMBDA v :
      LET len == v[1]
          name_end == v[2]
      IN  IF len > 0 /\ content[len] = "/"
          THEN LET name_len == IF name_end < len THEN name_end ELSE len - 1
               IN  Event("Empty", Slice(content, 0, name_len), Slice(content, 0, len - 1))
          ELSE Event("Start", Slice(content, 0, name_end), content))

\* read_until_close: the reader stands just after a '<'
ReadUntilClose(f, pos) ==
    IF pos >= Len(f)
    THEN [ev |-> Event("Eof", <<>>, <<>>), pos |-> pos, st |-> "Exit"]
    ELSE
      CASE f[pos + 1] = "!" ->
             With(CommentEnd(f, pos, pos + 1), LAMBDA e :
               IF /\ e < Len(f)
                  /\ pos + 3 <= Len(f)
                  /\ Slice(f, pos, pos + 3) = <<"!", "-", "-">>
               THEN [ev |-> Event("Comment", <<>>, Slice(f, pos, e)),
                     pos |-> e + 1, st |-> "ClosedTag"]
               ELSE [ev |-> Event("Err", <<>>, <<>>), pos |-> pos, st |-> "Exit"])
        [] f[pos + 1] = "/" ->
             With(FindByte(f, ">", pos), LAMBDA e :
               [ev |-> Event("End", TrimWsEnd(Slice(f, pos + 1, e)), Slice(f, pos, e)),
                pos |-> Min(e + 1, Len(f)), st |-> "ClosedTag"])
        [] f[pos + 1] = "?" ->
             With(FindByte(f, ">", pos), LAMBDA e :
               IF e - pos > 2 /\ f[e] = "?"
               THEN [ev |-> Event("PI", <<>>, Slice(f, pos, e)),
                     pos |-> Min(e + 1, Len(f)), st |-> "ClosedTag"]
               ELSE [ev |-> Event("Err", <<>>, <<>>), pos |-> pos, st |-> "Exit"])
        [] OTHER ->
             With(ElementEnd(f, pos, ""), LAMBDA e :
               IF e < Len(f)
               THEN [ev |-> With(Slice(f, pos, e), LAMBDA c : EmitStart(c)),
                     pos |-> e + 1, st |-> "ClosedTag"]
               ELSE [ev |-> Event("Err", <<>>, <<>>), pos |-> Len(f), st |-> "Exit"])

\* read_event_impl on absolute offsets: in state Init or ClosedTag text is
\* read up to and including the next '<' (read_until_open); a '<' met at
\* once is skipped and the tag is read in the same call
ReadEventAbs(f, pos, st) ==
    CASE st = "Exit" ->
           [ev |-> Event("Eof", <<>>, <<>>), pos |-> pos, st |-> "Exit"]
      [] st = "OpenedTag" -> ReadUntilClose(f, pos)
      [] OTHER ->
           IF pos >= Len(f)
           THEN [ev |-> Event("Eof", <<>>, <<>>), pos |-> pos, st |-> "Exit"]
           ELSE IF f[pos + 1] = "<"
           THEN ReadUntilClose(f, pos + 1)
           ELSE With(FindByte(f, "<", pos), LAMBDA e :
                  [ev |-> Event("Text", <<>>, Slice(f, pos, e)),
                   pos |-> Min(e + 1, Len(f)), st |-> "OpenedTag"])

\* A reader over the file from seek offset base: pos is buffer_position(),
\* the number of bytes consumed since the seek; opened holds the names of
\* the open start tags, check is the check_end_names setting.
NewReader(base, check) ==
    [base |-> base, pos |-> 0, st |-> "Init", opened |-> <<>>, check |-> check]

\* read_event_into: the event and the reader after it.  emit_start records
\* the name, emit_end pops it and, with check_end_names, fails on a mismatch.
ReadEvent(f, r) ==
    With(ReadEventAbs(f, r.base + r.pos, r.st), LAMBDA x :
      LET n == Len(r.opened)
          mismatch == /\ x.ev.kind = "End"
                      /\ r.check
                      /\ (n = 0 \/ r.opened[n] # x.ev.name)
          opened == CASE x.ev.kind = "Start" -> Append(r.opened, x.ev.name)
                      [] x.ev.kind = "End" /\ n > 0 -> SubSeq(r.opened, 1, n - 1)
                      [] OTHER -> r.opened
      IN  IF mismatch
          THEN [ev |-> Event("Err", <<>>, <<>>),
                r |-> [r EXCEPT !.st = "Exit"]]
          ELSE [ev |-> x.ev,
                r |-> [r EXCEPT !.pos = x.pos - r.base, !.st = x.st, !.opened = opened]])

(***************************************************************************)
(* BytesStart::attributes(): the key="value" pairs after the tag name.     *)
(* The iteration stops at the first malformed attribute.                   *)
(***************************************************************************)
RECURSIVE SkipWs(_, _)
SkipWs(c, i) ==
    IF i < Len(c) /\ IsWs(c[i + 1]) THEN SkipWs(c, i + 1) ELSE i

RECURSIVE KeyEnd(_, _)
KeyEnd(c, i) ==
    IF i >= Len(c) THEN Len(c)
    ELSE IF c[i + 1] = "=" \/ IsWs(c[i + 1]) THEN i
    ELSE KeyEnd(c, i + 1)

RECURSIVE Attributes(_, _)
Attributes(c, i) ==
    With(SkipWs(c, i), LAMBDA k0 :
    With(KeyEnd(c, k0), LAMBDA k1 :
    With(SkipWs(c, k1), LAMBDA eq :
    With(SkipWs(c, eq + 1), LAMBDA q0 :
      IF k0 >= Len(c) \/ eq >= Len(c) \/ c[eq + 1] # "=" \/ q0 >= Len(c)
      THEN <<>>
      ELSE IF c[q0 + 1] \notin {"\"", "'"} THEN <<>>
      ELSE With(FindByte(c, c[q0 + 1], q0 + 1), LAMBDA q1 :
             IF q1 >= Len(c) THEN <<>>
             ELSE <<[key |-> Slice(c, k0, k1), value |-> Slice(c, q0 + 1, q1)]>>
                  \o Attributes(c, q1 + 1))))))

(***************************************************************************)
(* The matcher (element_matches_bytes and its helpers).                    *)
(***************************************************************************)
EqIgnoreCase(x, y) == Lower(x) = Lower(y)

\* iter_eq_ignore_case: zip stops at the shorter of the two
iter_eq_ignore_case(a, b) ==
    \A i \in 1..Min(Len(a), Len(b)) : EqIgnoreCase(a[i], b[i])

key_matches(key, target) ==
    /\ Len(key) = Len(target)
    /\ \A i \in 1..Len(key) : EqIgnoreCase(key[i], target[i])

contains_ignore_case(haystack, needle) ==
    IF needle = <<>> THEN TRUE
    ELSE IF Len(haystack) < Len(needle) THEN FALSE
    ELSE \E i \in 0..(Len(haystack) - Len(needle)) :
            iter_eq_ignore_case(Slice(haystack, i, i + Len(needle)), needle)

TypeTag == <<"t", "a", "g">>
TypeAny == <<"a", "n", "y">>
TypeId == <<"i", "d">>
AnyKeys == { <<"g", "u", "i", "d">>, <<"i", "d">>, <<"n", "a", "m", "e">>,
             <<"e", "a", "i", "d">>, <<"v", "a", "l", "u", "e">>,
             <<"g", "u", "i", "d", "r", "e", "f">> }

\* e is a Start or Empty event
element_matches_bytes(e, query_bytes, type_bytes) ==
    \/ /\ type_bytes \in {<<>>, TypeTag, TypeAny}
       /\ contains_ignore_case(e.name, query_bytes)
    \/ \E attrs \in {Attributes(e.content, Len(e.name))} :
       \E i \in 1..Len(attrs) :
          /\ IF type_bytes = TypeAny
             THEN \E k \in AnyKeys : key_matches(attrs[i].key, k)
             ELSE key_matches(attrs[i].key, type_bytes)
          /\ contains_ignore_case(attrs[i].value, query_bytes)

(***************************************************************************)
(* find_element_end_pos: one iteration of its loop, and the whole loop.    *)
(***************************************************************************)
\* 10 * 1024 * 1024
scan_limit == 10485760

\* an iteration that counts no nested open tag: the scan ends at the first
\* close tag of the name
end_pos_first_close(f, r, depth, initial_pos, tag_name, file_len, start_offset) ==
    IF r.pos - initial_pos > scan_limit
    THEN [done |-> TRUE, value |-> start_offset + r.pos, r |-> r, depth |-> depth,
          ev |-> Event("None", <<>>, <<>>)]
    ELSE With(ReadEvent(f, r), LAMBDA x :
      CASE x.ev.kind = "End" /\ x.ev.name = tag_name ->
             [done |-> TRUE, value |-> start_offset + x.r.pos, r |-> x.r, depth |-> 0,
              ev |-> x.ev]
        [] x.ev.kind = "Eof" ->
             [done |-> TRUE, value |-> file_len, r |-> x.r, depth |-> depth, ev |-> x.ev]
        [] x.ev.kind = "Err" ->
             [done |-> TRUE, value |-> start_offset + x.r.pos, r |-> x.r, depth |-> depth,
              ev |-> x.ev]
        [] OTHER ->
             [done |-> FALSE, value |-> 0, r |-> x.r, depth |-> depth, ev |-> x.ev])

\* One iteration with the reader r and the depth counter: either the
\* function returns value (done), or it goes on with the new reader and depth.
EndPosStep(f, r, depth, initial_pos, tag_name, file_len, start_offset) ==
    IF r.pos - initial_pos > scan_limit
    THEN [done |-> TRUE, value |-> start_offset + r.pos, r |-> r, depth |-> depth,
          ev |-> Event("None", <<>>, <<>>)]
    ELSE With(ReadEvent(f, r), LAMBDA x :
      CASE x.ev.kind = "Start" ->
             [done |-> FALSE, value |-> 0, r |-> x.r,
              depth |-> IF x.ev.name = tag_name THEN depth + 1 ELSE depth, ev |-> x.ev]
        [] x.ev.kind = "End" ->
             IF x.ev.name = tag_name
             THEN IF depth - 1 = 0
                  THEN [done |-> TRUE, value |-> start_offset + x.r.pos,
                        r |-> x.r, depth |-> 0, ev |-> x.ev]
                  ELSE [done |-> FALSE, value |-> 0, r |-> x.r, depth |-> depth - 1,
                        ev |-> x.ev]
             ELSE [done |-> FALSE, value |-> 0, r |-> x.r, depth |-> depth, ev |-> x.ev]
        [] x.ev.kind = "Eof" ->
             [done |-> TRUE, value |-> file_len, r |-> x.r, depth |-> depth, ev |-> x.ev]
        [] x.ev.kind = "Err" ->
             [done |-> TRUE, value |-> start_offset + x.r.pos, r |-> x.r, depth |-> depth,
              ev |-> x.ev]
        [] OTHER ->
             [done |-> FALSE, value |-> 0, r |-> x.r, depth |-> depth, ev |-> x.ev])

RECURSIVE EndPosLoop(_, _, _, _, _, _, _)
EndPosLoop(f, r, depth, initial_pos, tag_name, file_len, start_offset) ==
    With(EndPosStep(f, r, depth, initial_pos, tag_name, file_len, start_offset), LAMBDA s :
      IF s.done THEN s.value
      ELSE EndPosLoop(f, s.r, s.depth, initial_pos, tag_name, file_len, start_offset))

\* the call made after a Start event was consumed by reader r
find_element_end_pos(f, r, tag_name, file_len, start_offset) ==
    EndPosLoop(f, r, 1, r.pos, tag_name, file_len, start_offset)

(***************************************************************************)
(* Results.  kind is "ok" (Ok(SearchResult)), "err" (Err(message)) or      *)
(* "panic" (an unsigned subtraction underflowed).                          *)
(***************************************************************************)
SearchResult(found, xpath, text, before, after, offset, line) ==
    [kind |-> "ok", found |-> found, xpath |-> xpath, element_text |-> text,
     context_before |-> before, context_after |-> after, offset |-> offset,
     line_number |-> line, err |-> ""]

NotFound == SearchResult(FALSE, <<>>, <<>>, <<>>, <<>>, 0, 0)

Failure(kind, msg) ==
    [kind |-> kind, found |-> FALSE, xpath |-> <<>>, element_text |-> <<>>,
     context_before |-> <<>>, context_after |-> <<>>, offset |-> 0,
     line_number |-> 0, err |-> msg]

Err(msg) == Failure("err", msg)

\* File::read after a seek to off into a buffer of n bytes: short at EOF
ReadAt(f, off, n) == Slice(f, Min(off, Len(f)), Min(off + n, Len(f)))

\* the line buffer of count_lines_up_to: 8192 bytes in the source, scaled down
\* to the documents of the model so that the range [0, offset) is read in
\* more than one chunk
line_buffer_len == 3

\* count_lines_up_to: reads [0, offset) in chunks, stops at EOF
RECURSIVE CountLinesFrom(_, _, _, _)
CountLinesFrom(f, offset, total_read, count) ==
    With(ReadAt(f, total_read, Min(offset - total_read, line_buffer_len)), LAMBDA chunk :
      IF offset - total_read = 0 \/ chunk = <<>> THEN count
      ELSE CountLinesFrom(f, offset, total_read + Len(chunk), count + CountNl(chunk)))

\* a count that starts at 0
count_lines_zero_based(f, offset) == CountLinesFrom(f, offset, 0, 0)

count_lines_up_to(f, offset) == CountLinesFrom(f, offset, 0, 1)

scan_back == 2048
fwd_search_len == 256
scan_fwd == 128
context_len == 2000

(***************************************************************************)
(* extract_and_build_result: the boundary resolver and context extractor.  *)
(***************************************************************************)
\* an exact start that trusts the reported position
exact_start_uncorrected(f, approx_start) == approx_start

\* exact start: the '<' just before approx_start, else the first '<' within
\* fwd_search_len bytes from approx_start, else approx_start itself
ExactStart(f, approx_start) ==
    LET scan_start == IF approx_start > scan_back THEN approx_start - scan_back ELSE 0
        n == approx_start - scan_start
    IN  IF n > 0
        THEN IF approx_start - 1 < Len(f) /\ ByteAt(f, approx_start - 1) = "<"
             THEN scan_start + (n - 1)
             ELSE With(ReadAt(f, approx_start, fwd_search_len), LAMBDA fwd_buf :
                  With(FindByte(fwd_buf, "<", 0), LAMBDA fwd :
                    IF fwd < Len(fwd_buf) THEN approx_start + fwd ELSE approx_start))
        ELSE approx_start

\* a forward scan that starts one byte after the reported end
fwd_start_ahead(approx_end) == approx_end + 1

FwdStart(approx_end) == IF approx_end > 0 THEN approx_end - 1 ELSE 0

\* exact end: just past the first '>' within scan_fwd bytes from approx_end - 1
ExactEnd(f, file_len, approx_end) ==
    With(FwdStart(approx_end), LAMBDA fwd_start :
    With(ReadAt(f, fwd_start, Min(scan_fwd, file_len - fwd_start)), LAMBDA fwd_buf :
    With(FindByte(fwd_buf, ">", 0), LAMBDA i :
      IF i < Len(fwd_buf) THEN fwd_start + i + 1 ELSE approx_end)))

\* the result for the resolved boundaries; the three unsigned subtractions
\* of the function underflow when their operands are out of order
BuildResult(f, file_len, fwd_start, exact_start, exact_end, xpath) ==
    LET context_start == IF exact_start > context_len THEN exact_start - context_len ELSE 0
    IN  IF fwd_start > file_len THEN Failure("panic", "file_len - fwd_start")
        ELSE IF exact_end < exact_start THEN Failure("panic", "exact_end - exact_start")
        ELSE IF exact_end > file_len THEN Failure("panic", "file_len - exact_end")
        ELSE SearchResult(TRUE, xpath,
                          ReadAt(f, exact_start, exact_end - exact_start),
                          ReadAt(f, context_start, exact_start - context_start),
                          ReadAt(f, exact_end, Min(context_len, file_len - exact_end)),
                          exact_start,
                          count_lines_up_to(f, exact_start))

extract_and_build_result(f, file_len, approx_start, approx_end, xpath) ==
    With(<<approx_start, approx_end>>, LAMBDA a :
    With(<<ExactStart(f, a[1]),
           IF FwdStart(a[2]) > file_len THEN a[2] ELSE ExactEnd(f, file_len, a[2])>>,
         LAMBDA b :
      BuildResult(f, file_len, FwdStart(a[2]), b[1], b[2], xpath)))

(***************************************************************************)
(* XPath strings.                                                          *)
(***************************************************************************)
\* stack.join("/")
RECURSIVE Join(_)
Join(names) ==
    IF names = <<>> THEN <<>>
    ELSE IF Len(names) = 1 THEN names[1]
    ELSE names[1] \o <<"/">> \o Join(Tail(names))

\* format!("/{}", stack.join("/"))
PathOf(names) == <<"/">> \o Join(names)

MarkFirst == <<" ", "(", "f", "i", "r", "s", "t", ")">>
MarkLast == <<" ", "(", "l", "a", "s", "t", ")">>

(***************************************************************************)
(* get_first_child_internal                                                *)
(***************************************************************************)
RECURSIVE FirstChildLoop(_, _, _, _)
FirstChildLoop(f, r, root_found, root_name) ==
    With(ReadEvent(f, r), LAMBDA x :
      LET pos_before == r.pos
          file_len == Len(f)
      IN  CASE x.ev.kind = "Start" ->
                 IF ~root_found THEN FirstChildLoop(f, x.r, TRUE, x.ev.name)
                 ELSE extract_and_build_result(f, file_len, pos_before,
                          find_element_end_pos(f, x.r, x.ev.name, file_len, 0),
                          <<"/">> \o root_name \o <<"/">> \o x.ev.name \o MarkFirst)
            [] x.ev.kind = "Empty" ->
                 IF ~root_found THEN Err("Root element is empty (no children)")
                 ELSE extract_and_build_result(f, file_len, pos_before, x.r.pos,
                          <<"/">> \o root_name \o <<"/">> \o x.ev.name \o MarkFirst)
            [] x.ev.kind = "Eof" -> Err("No child elements found")
            [] x.ev.kind = "Err" -> Err("Error")
            [] OTHER -> FirstChildLoop(f, x.r, root_found, root_name))

\* a first_child that reports a root without children as "not found"
first_child_not_found(f) ==
    With(FirstChildLoop(f, NewReader(0, TRUE), FALSE, <<>>), LAMBDA res :
      IF res.kind = "err" THEN NotFound ELSE res)

\* a first_child that takes the root's own tag for the first child
first_child_counts_root(f) == FirstChildLoop(f, NewReader(0, TRUE), TRUE, <<>>)

get_first_child_internal(f) == FirstChildLoop(f, NewReader(0, TRUE), FALSE, <<>>)

(***************************************************************************)
(* get_last_child_internal and the tag classifier                          *)
(***************************************************************************)
\* window of the backward scan: 64 * 1024 bytes in the source, scaled down to
\* the documents of the model so that windows end inside tags
chunk_size == 8
\* buffer of the forward re-read of a tag cut by a window: 1024 bytes in the
\* source, scaled down likewise (longer than every tag of the model)
tag_buf_len == 16

RECURSIVE NameEnd(_, _)
NameEnd(bytes, i) ==
    IF i >= Len(bytes) THEN Len(bytes)
    ELSE IF IsWs(bytes[i + 1]) \/ bytes[i + 1] \in {">", "/"} THEN i
    ELSE NameEnd(bytes, i + 1)

extract_tag_name_from_bytes(bytes) == Slice(bytes, 0, NameEnd(bytes, 0))

NoTag == [some |-> FALSE, name |-> <<>>, kind |-> "None", len |-> 0]

\* slice is a complete tag '<' ... '>'
classify_tag(slice) ==
    LET len == Len(slice) IN
    IF len < 3 THEN NoTag
    ELSE IF slice[2] = "?" \/ slice[2] = "!" THEN NoTag
    ELSE IF slice[2] = "/"
    THEN [some |-> TRUE, name |-> extract_tag_name_from_bytes(Slice(slice, 2, len)),
          kind |-> "Close", len |-> len]
    ELSE IF slice[len - 1] = "/"
    THEN [some |-> TRUE, name |-> extract_tag_name_from_bytes(Slice(slice, 1, len)),
          kind |-> "Empty", len |-> len]
    ELSE [some |-> TRUE, name |-> extract_tag_name_from_bytes(Slice(slice, 1, len)),
          kind |-> "Open", len |-> len]

\* the tag starting at the '<' at abs_start, seen from the window that ends
\* at window_end: within the window, or by one forward re-read
ParseTagAt(f, len, abs_start, window_end) ==
    With(Slice(f, abs_start, window_end), LAMBDA remaining :
    With(FindByte(remaining, ">", 0), LAMBDA gt :
      IF gt < Len(remaining) THEN classify_tag(Slice(remaining, 0, gt + 1))
      ELSE With(ReadAt(f, abs_start, Min(tag_buf_len, len - abs_start)), LAMBDA tag_buf :
           With(FindByte(tag_buf, ">", 0), LAMBDA gt2 :
             IF gt2 < Len(tag_buf) THEN classify_tag(Slice(tag_buf, 0, gt2 + 1))
             ELSE NoTag))))

\* The scan stands in the window [current_pos, current_pos + read_size) at
\* index i (i = -1: the window is done).  last_tag_end = -1 is None.
RECURSIVE BackScan(_, _, _, _, _, _, _, _)
BackScan(f, len, current_pos, read_size, i, depth, last_tag_end, root_name) ==
    IF i < 0
    THEN IF current_pos = 0 THEN Err("Last child not found")
         ELSE LET rs == Min(current_pos, chunk_size) IN
              BackScan(f, len, current_pos - rs, rs, rs - 1, depth, last_tag_end, root_name)
    ELSE IF ByteAt(f, current_pos + i) # "<"
    THEN BackScan(f, len, current_pos, read_size, i - 1, depth, last_tag_end, root_name)
    ELSE
      With(ParseTagAt(f, len, current_pos + i, current_pos + read_size), LAMBDA t :
      LET abs_start == current_pos + i IN
      CASE ~t.some ->
             BackScan(f, len, current_pos, read_size, i - 1, depth, last_tag_end, root_name)
        [] t.some /\ t.kind = "Close" ->
             BackScan(f, len, current_pos, read_size, i - 1, depth + 1,
                      IF depth + 1 = 2 THEN abs_start + t.len ELSE last_tag_end,
                      IF depth + 1 = 1 THEN t.name ELSE root_name)
        [] t.some /\ t.kind = "Open" ->
             IF depth - 1 = 1 /\ last_tag_end # -1
             THEN extract_and_build_result(f, len, abs_start, last_tag_end,
                      <<"/">> \o root_name \o <<"/">> \o t.name \o MarkLast)
             ELSE IF depth - 1 = 0 THEN Err("No last child found (root exited)")
             ELSE BackScan(f, len, current_pos, read_size, i - 1, depth - 1,
                           last_tag_end, root_name)
        [] t.some /\ t.kind = "Empty" ->
             IF depth = 1
             THEN extract_and_build_result(f, len, abs_start, abs_start + t.len,
                      <<"/">> \o root_name \o <<"/">> \o t.name \o MarkLast)
             ELSE BackScan(f, len, current_pos, read_size, i - 1, depth,
                           last_tag_end, root_name))

get_last_child_internal(f) ==
    IF Len(f) = 0 THEN Err("File is empty")
    ELSE BackScan(f, Len(f), Len(f), 0, -1, 0, -1, <<>>)

(***************************************************************************)
(* reconstruct_xpath, resolve_xpath, find_parent_internal                  *)
(***************************************************************************)
\* a pop that leaves the closed element on the stack
pop_keeps(stack) == stack

\* Vec::pop: nothing happens on an empty stack
Pop(stack) == IF stack = <<>> THEN stack ELSE SubSeq(stack, 1, Len(stack) - 1)

\* the replay of the forward scan from offset 0 up to target: the stack of
\* [name, pos] entries of the start tags read and not yet closed
RECURSIVE ReplayStack(_, _, _, _)
ReplayStack(f, r, target, stack) ==
    IF r.pos >= target THEN stack
    ELSE With(ReadEvent(f, r), LAMBDA x :
      CASE x.ev.kind = "Start" ->
             ReplayStack(f, x.r, target, Append(stack, [name |-> x.ev.name, pos |-> r.pos]))
        [] x.ev.kind = "End" -> ReplayStack(f, x.r, target, Pop(stack))
        [] x.ev.kind \in {"Eof", "Err"} -> stack
        [] OTHER -> ReplayStack(f, x.r, target, stack))

StackNames(stack) == [i \in 1..Len(stack) |-> stack[i].name]

reconstruct_xpath(f, target_offset) ==
    PathOf(StackNames(ReplayStack(f, NewReader(0, FALSE), target_offset, <<>>)))

\* format!("{}/{}", parent_path, tag_name)
resolve_xpath(f, offset, tag_name) ==
    reconstruct_xpath(f, offset) \o <<"/">> \o tag_name

\* reader3: read on to the first Start event named ancestor_name
RECURSIVE SeekAncestor(_, _, _)
SeekAncestor(f, r, ancestor_name) ==
    With(ReadEvent(f, r), LAMBDA x :
      CASE x.ev.kind = "Start" /\ x.ev.name = ancestor_name ->
             [ok |-> TRUE, r |-> x.r, err |-> ""]
        [] x.ev.kind = "Eof" ->
             [ok |-> FALSE, r |-> x.r, err |-> "Unexpected EOF while seeking ancestor start"]
        [] x.ev.kind = "Err" -> [ok |-> FALSE, r |-> x.r, err |-> "Parse error"]
        [] OTHER -> SeekAncestor(f, x.r, ancestor_name))

\* the result for the entry stack[depth]: reader3 seeks to its recorded
\* position, reads on to its Start event and locates its end
AncestorAt(f, stack, depth) ==
    LET anc == stack[depth + 1]
        xpath == PathOf(StackNames(SubSeq(stack, 1, depth + 1)))
        file_len == Len(f)
    IN  With(SeekAncestor(f, NewReader(anc.pos, FALSE), anc.name), LAMBDA s :
          IF ~s.ok THEN Err(s.err)
          ELSE extract_and_build_result(f, file_len, anc.pos,
                   find_element_end_pos(f, s.r, anc.name, file_len, anc.pos),
                   xpath))

\* a find_parent that clamps the depth to the deepest recorded ancestor
find_parent_clamps(f, child_offset, ancestor_depth) ==
    With(ReplayStack(f, NewReader(0, FALSE), child_offset, <<>>), LAMBDA stack :
      IF stack = <<>> THEN Err("Ancestor depth is out of range")
      ELSE AncestorAt(f, stack, Min(ancestor_depth, Len(stack) - 1)))

find_parent_internal(f, child_offset, ancestor_depth) ==
    With(ReplayStack(f, NewReader(0, FALSE), child_offset, <<>>), LAMBDA stack :
      IF ancestor_depth >= Len(stack) THEN Err("Ancestor depth is out of range")
      ELSE AncestorAt(f, stack, ancestor_depth))

(***************************************************************************)
(* The documents of the model, and what they mean: the elements of a       *)
(* token sequence, independently of the scanners above.                    *)
(***************************************************************************)
TokKind(t) ==
    CASE t \in {"oa", "ob"} -> "open"
      [] t \in {"ca", "cb"} -> "close"
      [] t = "eb" -> "empty"
      [] t = "nl" -> "text"
      [] t = "cm" -> "comment"

TokName(t) == IF t \in {"oa", "ca"} THEN <<"a">> ELSE <<"b">>

IsElemTok(t) == TokKind(t) \in {"open", "empty"}

RECURSIVE SeqsUpTo(_, _)
SeqsUpTo(S, n) ==
    IF n = 0 THEN {<<>>}
    ELSE LET P == SeqsUpTo(S, n - 1)
         IN  P \cup {Append(q, t) : q \in {x \in P : Len(x) = n - 1}, t \in S}

\* names of the elements open after the first i tokens; <<"#">> marks a
\* sequence whose first i tokens are not a prefix of a well-formed document
RECURSIVE OpenAfter(_, _)
OpenAfter(ts, i) ==
    IF i = 0 THEN <<>>
    ELSE LET s == OpenAfter(ts, i - 1)
             t == ts[i]
         IN  IF s = <<"#">> THEN s
             ELSE CASE TokKind(t) = "open" -> Append(s, TokName(t)[1])
                    [] TokKind(t) = "close" ->
                         IF s # <<>> /\ s[Len(s)] = TokName(t)[1]
                         THEN SubSeq(s, 1, Len(s) - 1)
                         ELSE <<"#">>
                    [] OTHER -> s

\* indices of the top-level elements
RootToks(ts) == {i \in 1..Len(ts) : IsElemTok(ts[i]) /\ OpenAfter(ts, i - 1) = <<>>}

\* one root element, every tag closed by its own name, no text but
\* whitespace outside the root
WellFormed(ts) ==
    /\ OpenAfter(ts, Len(ts)) = <<>>
    /\ Cardinality(RootToks(ts)) = 1

\* the well-formed documents of at most n tokens, and the empty file
DocsUpTo(n) == {ts \in SeqsUpTo(TokenIds, n) : WellFormed(ts)} \cup {<<>>}

Docs == DocsUpTo(MaxTokens)

\* offset of the first byte of token i
RECURSIVE TokStart(_, _)
TokStart(ts, i) == IF i <= 1 THEN 0 ELSE TokStart(ts, i - 1) + Len(TokenBytes(ts[i - 1]))

TokEnd(ts, i) == TokStart(ts, i) + Len(TokenBytes(ts[i]))

\* the token that closes the element opened by token i (i itself when empty
\* or never closed)
CloseOf(ts, i) ==
    IF TokKind(ts[i]) # "open" THEN i
    ELSE LET js == {j \in (i + 1)..Len(ts) :
                      Len(OpenAfter(ts, j)) = Len(OpenAfter(ts, i - 1))}
         IN  IF js = {} THEN i ELSE CHOOSE j \in js : \A k \in js : j <= k

ElemStart(ts, i) == TokStart(ts, i)
ElemEnd(ts, i) == TokEnd(ts, CloseOf(ts, i))
ElemText(ts, i) == Slice(Render(ts), ElemStart(ts, i), ElemEnd(ts, i))

\* names of the ancestors of element i, root first
Ancestors(ts, i) == [k \in 1..Len(OpenAfter(ts, i - 1)) |-> <<OpenAfter(ts, i - 1)[k]>>]

\* the direct children of the root, in document order
ChildToks(ts) == {i \in 1..Len(ts) : IsElemTok(ts[i]) /\ Len(OpenAfter(ts, i - 1)) = 1}

RootTok(ts) == CHOOSE i \in RootToks(ts) : TRUE

SetMin(S) == CHOOSE x \in S : \A y \in S : x <= y
SetMax(S) == CHOOSE x \in S : \A y \in S : x >= y

(***************************************************************************)
(* The state of the program and of its callers.                            *)
(***************************************************************************)
VARIABLES
    toks,           \* the tokens the file was written from (not read by the code)
    file,           \* the bytes of the target file
    cancelled,      \* SEARCH_CANCELLED
    pc,             \* per search invocation: "idle", "check", "read", "end", "done"
    call,           \* its arguments [query, search_type, start_offset]
    reader,         \* its quick_xml reader
    stack,          \* its ancestor stack
    last_progress,  \* its last_progress
    progress,       \* the values it has emitted as "search-progress"
    endscan,        \* find_element_end_pos in flight: [depth, initial_pos, name, approx_start]
    result,         \* the result it returns
    how,            \* how it returned: "", "cancelled", "eof", "match", "error"
    out,            \* the last result of a call other than search: [op, args, res]
    hist            \* history of the cancel requests, for the properties only

vars == <<toks, file, cancelled, pc, call, reader, stack, last_progress,
          progress, endscan, result, how, out, hist>>

Procs == {"A", "B"}

\* the inputs of search
Queries == {<<>>, <<"a">>, <<"B">>}
SearchTypes == {<<>>, TypeTag, TypeAny, TypeId}
Offsets == 0..(Len(file) + 1)

NoCall == [query |-> <<>>, search_type |-> <<>>, start_offset |-> 0]
NoEndScan == [depth |-> 0, initial_pos |-> 0, name |-> <<>>, approx_start |-> 0]
NoOut == [op |-> "", args |-> <<>>, res |-> <<>>]

\* hist.of[p]: flagAtStart - the flag as search p found it when it was
\* invoked; during - a cancel() was issued while p was in flight; reads - tag
\* events p read since then (counted to 2); missed - p loaded the flag after
\* that cancel() and found it clear.  hist.sinceCancel - a search was invoked
\* after the last cancel()
NoHist == [flagAtStart |-> FALSE, during |-> FALSE, reads |-> 0, missed |-> FALSE]

InitOn(docs) ==
    /\ toks \in docs
    /\ file = Render(toks)
    /\ cancelled = FALSE
    /\ pc = [p \in Procs |-> "idle"]
    /\ call = [p \in Procs |-> NoCall]
    /\ reader = [p \in Procs |-> NewReader(0, FALSE)]
    /\ stack = [p \in Procs |-> <<>>]
    /\ last_progress = [p \in Procs |-> 0]
    /\ progress = [p \in Procs |-> <<>>]
    /\ endscan = [p \in Procs |-> NoEndScan]
    /\ result = [p \in Procs |-> NotFound]
    /\ how = [p \in Procs |-> ""]
    /\ out = NoOut
    /\ hist = [sinceCancel |-> FALSE, of |-> [p \in Procs |-> NoHist]]

Init == InitOn(Docs)

InFlight(p) == pc[p] \in {"check", "read", "end"}

\* a tag event read by a search after a cancel() issued during its flight
CountRead(h, ev) ==
    IF h.during /\ ev.kind \in {"Start", "End", "Empty"}
    THEN [h EXCEPT !.reads = Min(2, h.reads + 1)]
    ELSE h

(***************************************************************************)
(* cancel_search                                                           *)
(***************************************************************************)
Cancel ==
    /\ cancelled' = TRUE
    /\ hist' = [sinceCancel |-> FALSE,
                of |-> [p \in Procs |->
                          IF InFlight(p) THEN [hist.of[p] EXCEPT !.during = TRUE]
                          ELSE hist.of[p]]]
    /\ UNCHANGED <<toks, file, pc, call, reader, stack, last_progress, progress,
                   endscan, result, how, out>>

(***************************************************************************)
(* search_node and search_node_internal                                    *)
(***************************************************************************)
\* u64::MAX, the value of a cast of +infinity (any value above 100 of the
\* integers TLC has)
u64_max == 2147483647

\* ((pos_before as f64 / total_len) * 100.0) as u64: 0/0 is NaN and casts
\* to 0, x/0 is +infinity and saturates
Percent(pos_before, file_len) ==
    IF file_len = 0 THEN (IF pos_before = 0 THEN 0 ELSE u64_max)
    ELSE (pos_before * 100) \div file_len

\* an invocation that leaves flag in SEARCH_CANCELLED: the file is opened and
\* the reader is placed at start_offset
SearchInvoke(p, query, search_type, start_offset, flag) ==
    /\ pc[p] = "idle"
    /\ out.op = ""
    /\ call' = [call EXCEPT ![p] = [query |-> query, search_type |-> search_type,
                                    start_offset |-> start_offset]]
    /\ cancelled' = flag
    /\ reader' = [reader EXCEPT ![p] = NewReader(start_offset, FALSE)]
    /\ stack' = [stack EXCEPT ![p] = <<>>]
    /\ last_progress' = [last_progress EXCEPT ![p] = 0]
    /\ progress' = [progress EXCEPT ![p] = <<>>]
    /\ pc' = [pc EXCEPT ![p] = "check"]
    /\ hist' = [sinceCancel |-> TRUE,
                of |-> [hist.of EXCEPT ![p] = [NoHist EXCEPT !.flagAtStart = cancelled]]]
    /\ UNCHANGED <<toks, file, endscan, result, how, out>>

\* a search_node that does not touch the flag
search_node_keeps_flag(p, query, search_type, start_offset) ==
    SearchInvoke(p, query, search_type, start_offset, cancelled)

\* a search_node that resets the flag only when no other search is in flight
search_node_guarded(p, query, search_type, start_offset) ==
    SearchInvoke(p, query, search_type, start_offset,
                 IF \E q \in Procs \ {p} : InFlight(q) THEN cancelled ELSE FALSE)

\* search_node up to the loop: the flag is reset
search_node(p, query, search_type, start_offset) ==
    SearchInvoke(p, query, search_type, start_offset, FALSE)

\* top of the loop: the flag is loaded; when it is clear the progress is
\* computed and emitted
SearchCheck(p) ==
    /\ pc[p] = "check"
    /\ IF cancelled
       THEN /\ result' = [result EXCEPT ![p] = NotFound]
            /\ how' = [how EXCEPT ![p] = "cancelled"]
            /\ pc' = [pc EXCEPT ![p] = "done"]
            /\ UNCHANGED <<last_progress, progress, hist>>
       ELSE LET pos_before == call[p].start_offset + reader[p].pos
                current_progress == Percent(pos_before, Len(file))
            IN  /\ IF current_progress > last_progress[p]
                   THEN /\ last_progress' = [last_progress EXCEPT ![p] = current_progress]
                        /\ progress' = [progress EXCEPT ![p] = Append(@, current_progress)]
                   ELSE UNCHANGED <<last_progress, progress>>
                /\ pc' = [pc EXCEPT ![p] = "read"]
                /\ hist' = [hist EXCEPT !.of[p].missed = @ \/ hist.of[p].during]
                /\ UNCHANGED <<result, how>>
    /\ UNCHANGED <<toks, file, cancelled, call, reader, stack, endscan, out>>

\* the match on the event read
SearchRead(p) ==
    /\ pc[p] = "read"
    /\ \E x \in {ReadEvent(file, reader[p])} :
       LET pos_before == call[p].start_offset + reader[p].pos
           query_bytes == LowerAll(call[p].query)
           type_bytes == LowerAll(call[p].search_type)
           file_len == Len(file)
       IN
       /\ reader' = [reader EXCEPT ![p] = x.r]
       /\ hist' = [hist EXCEPT !.of[p] = CountRead(@, x.ev)]
       /\ CASE x.ev.kind = "Start" ->
                 /\ stack' = [stack EXCEPT ![p] = Append(@, x.ev.name)]
                 /\ IF element_matches_bytes(x.ev, query_bytes, type_bytes)
                    THEN /\ pc' = [pc EXCEPT ![p] = "end"]
                         /\ endscan' = [endscan EXCEPT ![p] =
                                [depth |-> 1, initial_pos |-> x.r.pos,
                                 name |-> x.ev.name, approx_start |-> pos_before]]
                    ELSE /\ pc' = [pc EXCEPT ![p] = "check"]
                         /\ UNCHANGED endscan
                 /\ UNCHANGED <<progress, result, how>>
            [] x.ev.kind = "End" ->
                 /\ stack' = [stack EXCEPT ![p] = Pop(@)]
                 /\ pc' = [pc EXCEPT ![p] = "check"]
                 /\ UNCHANGED <<progress, result, how, endscan>>
            [] x.ev.kind = "Empty" ->
                 IF element_matches_bytes(x.ev, query_bytes, type_bytes)
                 THEN /\ progress' = [progress EXCEPT ![p] = Append(@, 100)]
                      /\ result' = [result EXCEPT ![p] =
                             extract_and_build_result(file, file_len, pos_before,
                                 call[p].start_offset + x.r.pos,
                                 PathOf(Append(stack[p], x.ev.name)))]
                      /\ how' = [how EXCEPT ![p] = "match"]
                      /\ pc' = [pc EXCEPT ![p] = "done"]
                      /\ UNCHANGED <<stack, endscan>>
                 ELSE /\ pc' = [pc EXCEPT ![p] = "check"]
                      /\ UNCHANGED <<progress, result, how, stack, endscan>>
            [] x.ev.kind = "Eof" ->
                 /\ progress' = [progress EXCEPT ![p] = Append(@, 100)]
                 /\ result' = [result EXCEPT ![p] = NotFound]
                 /\ how' = [how EXCEPT ![p] = "eof"]
                 /\ pc' = [pc EXCEPT ![p] = "done"]
                 /\ UNCHANGED <<stack, endscan>>
            [] x.ev.kind = "Err" ->
                 /\ result' = [result EXCEPT ![p] = Err("Error at position")]
                 /\ how' = [how EXCEPT ![p] = "error"]
                 /\ pc' = [pc EXCEPT ![p] = "done"]
                 /\ UNCHANGED <<progress, stack, endscan>>
            [] OTHER ->
                 /\ pc' = [pc EXCEPT ![p] = "check"]
                 /\ UNCHANGED <<progress, result, how, stack, endscan>>
    /\ UNCHANGED <<toks, file, cancelled, call, last_progress, out>>

\* one iteration of find_element_end_pos for the matched open tag; when it
\* returns, the path is rendered, 100 is emitted and the result is built
SearchEnd(p) ==
    /\ pc[p] = "end"
    /\ \E s \in {EndPosStep(file, reader[p], endscan[p].depth, endscan[p].initial_pos,
                              endscan[p].name, Len(file), call[p].start_offset)} :
       /\ reader' = [reader EXCEPT ![p] = s.r]
       /\ hist' = [hist EXCEPT !.of[p] = CountRead(@, s.ev)]
       /\ IF s.done
          THEN /\ progress' = [progress EXCEPT ![p] = Append(@, 100)]
               /\ result' = [result EXCEPT ![p] =
                      extract_and_build_result(file, Len(file), endscan[p].approx_start,
                                               s.value, PathOf(stack[p]))]
               /\ stack' = [stack EXCEPT ![p] = Pop(@)]
               /\ how' = [how EXCEPT ![p] = "match"]
               /\ pc' = [pc EXCEPT ![p] = "done"]
               /\ endscan' = [endscan EXCEPT ![p] = NoEndScan]
          ELSE /\ endscan' = [endscan EXCEPT ![p].depth = s.depth]
               /\ UNCHANGED <<progress, result, stack, how, pc>>
    /\ UNCHANGED <<toks, file, cancelled, call, last_progress, out>>

\* the result reaches the caller; nothing of the invocation is kept
SearchReturn(p) ==
    /\ pc[p] = "done"
    /\ pc' = [pc EXCEPT ![p] = "idle"]
    /\ call' = [call EXCEPT ![p] = NoCall]
    /\ reader' = [reader EXCEPT ![p] = NewReader(0, FALSE)]
    /\ stack' = [stack EXCEPT ![p] = <<>>]
    /\ last_progress' = [last_progress EXCEPT ![p] = 0]
    /\ progress' = [progress EXCEPT ![p] = <<>>]
    /\ endscan' = [endscan EXCEPT ![p] = NoEndScan]
    /\ result' = [result EXCEPT ![p] = NotFound]
    /\ how' = [how EXCEPT ![p] = ""]
    /\ hist' = [hist EXCEPT !.of[p] = NoHist]
    /\ UNCHANGED <<toks, file, cancelled, out>>

(***************************************************************************)
(* The other commands.  Each runs to completion on its own file handle;    *)
(* the caller issues them one at a time.                                   *)
(***************************************************************************)
ReadSizes == {0, 1, 5}
TagNames == {<<"a">>, <<"b">>}

Quiet == out.op = "" /\ \A p \in Procs : pc[p] = "idle"

Frame == UNCHANGED <<toks, file, cancelled, pc, call, reader, stack, last_progress,
                     progress, endscan, result, how, hist>>

\* an open_file that creates the file anew
open_file_truncates ==
    /\ Quiet
    /\ out' = [op |-> "open", args |-> <<>>, res |-> 0]
    /\ file' = <<>>
    /\ UNCHANGED <<toks, cancelled, pc, call, reader, stack, last_progress,
                   progress, endscan, result, how, hist>>

OpenFile ==
    /\ Quiet
    /\ out' = [op |-> "open", args |-> <<>>, res |-> Len(file)]
    /\ Frame

\* read_chunk_internal: up to size bytes from offset
read_chunk_internal(f, offset, size) == ReadAt(f, offset, size)

ReadChunk ==
    /\ Quiet
    /\ \E o \in Offsets, n \in ReadSizes :
          out' = [op |-> "read_raw", args |-> <<o, n>>, res |-> read_chunk_internal(file, o, n)]
    /\ Frame

FirstChild ==
    /\ Quiet
    /\ out' = [op |-> "first_child", args |-> <<>>, res |-> get_first_child_internal(file)]
    /\ Frame

\* a last_child that gives up when the flag is set
last_child_cancellable ==
    /\ Quiet
    /\ out' = [op |-> "last_child", args |-> <<>>,
               res |-> IF cancelled THEN NotFound ELSE get_last_child_internal(file)]
    /\ Frame

LastChild ==
    /\ Quiet
    /\ out' = [op |-> "last_child", args |-> <<>>, res |-> get_last_child_internal(file)]
    /\ Frame

ResolveXpath ==
    /\ Quiet
    /\ \E o \in Offsets, n \in TagNames :
          out' = [op |-> "resolve_path", args |-> <<o, n>>, res |-> resolve_xpath(file, o, n)]
    /\ Frame

FindParent ==
    /\ Quiet
    /\ \E o \in Offsets, d \in 0..MaxDepthArg :
          out' = [op |-> "find_ancestor", args |-> <<o, d>>,
                  res |-> find_parent_internal(file, o, d)]
    /\ Frame

\* the result reaches the caller
Return ==
    /\ out.op # ""
    /\ out' = NoOut
    /\ Frame

(***************************************************************************)
(* Specifications                                                          *)
(***************************************************************************)
SearchStart(p) ==
    \E q \in Queries, t \in SearchTypes, o \in Offsets : search_node(p, q, t, o)

Search(p) ==
    \/ SearchStart(p)
    \/ SearchCheck(p)
    \/ SearchRead(p)
    \/ SearchEnd(p)
    \/ SearchReturn(p)

Commands ==
    \/ OpenFile
    \/ ReadChunk
    \/ FirstChild
    \/ LastChild
    \/ ResolveXpath
    \/ FindParent
    \/ Return

\* one search at a time, never cancelled, and the other commands
Next ==
    \/ Search("A")
    \/ Commands

Spec == Init /\ [][Next]_vars

\* the same with cancel() issued at any moment
InitCancel == InitOn(DocsUpTo(MaxTokensCancel))

NextCancel ==
    \/ Cancel
    \/ Search("A")
    \/ Commands

SpecCancel == InitCancel /\ [][NextCancel]_vars

\* two search invocations for one query, and cancel()
InitTwo == InitOn(DocsUpTo(MaxTokensTwo))

SearchStartTwo(p) == search_node(p, <<"B">>, TypeTag, 0)

NextTwo ==
    \/ Cancel
    \/ \E p \in Procs :
          \/ SearchStartTwo(p)
          \/ SearchCheck(p)
          \/ SearchRead(p)
          \/ SearchEnd(p)
          \/ SearchReturn(p)

SpecTwo == InitTwo /\ [][NextTwo]_vars

(***************************************************************************)
(* Properties.  The elements of a document are read off the tokens it was  *)
(* written from, never off the scanners.                                   *)
(***************************************************************************)
\* the event of the open or self-closing tag written by token t
TagEvent(t) == EmitStart(Slice(TokenBytes(t), 1, Len(TokenBytes(t)) - 1))

\* the elements that start at or after off and whose tag satisfies the matcher
Matching(ts, query, search_type, off) ==
    {i \in 1..Len(ts) :
        /\ IsElemTok(ts[i])
        /\ TokStart(ts, i) >= off
        /\ element_matches_bytes(TagEvent(ts[i]), LowerAll(query), LowerAll(search_type))}

\* res is a found result whose boundaries are those of element i
IsElement(res, ts, i) ==
    /\ res.kind = "ok"
    /\ res.found
    /\ res.offset = ElemStart(ts, i)
    /\ res.element_text = ElemText(ts, i)

\* the tokens strictly inside which offset off lies
InsideTok(ts, off) == {i \in 1..Len(ts) : TokStart(ts, i) < off /\ off < TokEnd(ts, i)}

ChildPath(ts, i, mark) ==
    <<"/">> \o TokName(ts[RootTok(ts)]) \o <<"/">> \o TokName(ts[i]) \o mark

Done(p) == pc[p] = "done"

\* C1: an uncancelled search returns the first element in document order, at
\* or after start_offset, whose open or self-closing tag satisfies the
\* matcher, and a found=false result only if there is no such element.
C1_SearchReturnsFirstMatch ==
    Done("A") =>
      LET M == Matching(toks, call["A"].query, call["A"].search_type,
                        call["A"].start_offset)
      IN  IF M = {} THEN result["A"] = NotFound
          ELSE IsElement(result["A"], toks, SetMin(M))

\* C1: a search that starts inside a comment has returned found=true although
\* no element at or after start_offset satisfies the matcher
C1_MatchInsideComment ==
    /\ Done("A")
    /\ result["A"].kind = "ok"
    /\ result["A"].found
    /\ \E i \in InsideTok(toks, call["A"].start_offset) : TokKind(toks[i]) = "comment"
    /\ Matching(toks, call["A"].query, call["A"].search_type,
                call["A"].start_offset) = {}

\* C2: once cancel() has set the flag during an in-flight search that no other
\* invocation resets, the search reads at most one further tag event and then
\* returns a found=false result, never a found=true result.
C2_CancelStopsWithinOneEvent ==
    hist.of["A"].during =>
      /\ hist.of["A"].reads <= 1
      /\ Done("A") => result["A"].kind = "ok" /\ ~result["A"].found

\* C2: the search was cancelled, read two more tag events while it located
\* the end of the matched element, and returned found=true
C2_EndScanIgnoresCancel ==
    /\ Done("A")
    /\ hist.of["A"].during
    /\ hist.of["A"].reads = 2
    /\ how["A"] = "match"
    /\ result["A"].found

\* C3 as stated: a search invoked when cancel() has just set the flag returns
\* found=false.
C3_CancelBeforeStartAborts ==
    Done("A") /\ hist.of["A"].flagAtStart =>
      result["A"].kind = "ok" /\ ~result["A"].found

\* C3 amended: the invocation clears the flag, so a cancel() issued before a
\* search is invoked has no effect on it: the flag stays clear while the
\* search is in flight unless cancel() is issued during its flight, and the
\* search returns by cancellation only in that case.
C3_CancelBeforeStartIsDropped ==
    /\ InFlight("A") /\ ~hist.of["A"].during => ~cancelled
    /\ how["A"] = "cancelled" => hist.of["A"].during

\* C3: the flag was set when the search was invoked, and the search has
\* returned its match
C3_MatchAfterEarlyCancel ==
    /\ Done("A")
    /\ hist.of["A"].flagAtStart
    /\ ~hist.of["A"].during
    /\ how["A"] = "match"
    /\ result["A"].found

\* C4: every search invocation resets the shared flag; a search is aborted
\* only by a cancel() issued during its flight with no search invoked since,
\* and a search that loads the flag after such a cancel() finds it clear only
\* if another search was invoked in between.
C4_RestartHidesCancel ==
    [][\A p \in Procs :
         /\ pc[p] = "idle" /\ pc'[p] = "check" => ~cancelled'
         /\ how[p] # "cancelled" /\ how'[p] = "cancelled" =>
              hist.of[p].during /\ ~hist.sinceCancel
         /\ ~hist.of[p].missed /\ hist'.of[p].missed => hist.sinceCancel]_vars

\* C4: cancel() was issued while A was in flight, B was invoked, A loaded the
\* flag and found it clear, and both have run to their match
C4_BothSurviveCancel ==
    /\ hist.of["A"].missed
    /\ Done("A") /\ how["A"] = "match"
    /\ Done("B") /\ how["B"] = "match"

\* C5: every search that completes by a match, by exhaustion or by
\* cancellation has emitted the progress value 100 as its last emission.
C5_FinalProgressIs100 ==
    Done("A") /\ how["A"] \in {"match", "eof", "cancelled"} =>
      /\ progress["A"] # <<>>
      /\ progress["A"][Len(progress["A"])] = 100

\* C5: a search has returned by cancellation after emitting progress, and the
\* last value it emitted is not 100
C5_CancelledWithout100 ==
    /\ Done("A")
    /\ how["A"] = "cancelled"
    /\ progress["A"] # <<>>
    /\ progress["A"][Len(progress["A"])] # 100

\* C6: a found=false result comes only from search, on cancellation or on
\* exhaustion, and has xpath, element_text, context_before and context_after
\* empty and offset 0; first_child, last_child and find_ancestor return a
\* found=true result or an error.
C6_NotFoundOnlyFromSearch ==
    /\ Done("A") /\ result["A"].kind = "ok" /\ ~result["A"].found =>
         /\ how["A"] \in {"cancelled", "eof"}
         /\ result["A"].xpath = <<>>
         /\ result["A"].element_text = <<>>
         /\ result["A"].context_before = <<>>
         /\ result["A"].context_after = <<>>
         /\ result["A"].offset = 0
    /\ out.op \in {"first_child", "last_child", "find_ancestor"} =>
         \/ out.res.kind = "err"
         \/ out.res.kind = "ok" /\ out.res.found

\* C6: first_child has met a root without child elements
C6_FirstChildOfChildlessRoot ==
    /\ out.op = "first_child"
    /\ toks # <<>>
    /\ ChildToks(toks) = {}
    /\ out.res.kind = "err"

\* C7: for a well-formed document whose root has a child element, last_child
\* returns the last direct child of the root, from its opening '<' to just
\* past its closing '>', with the xpath /<root>/<child> (last).
C7_LastChildIsLastChild ==
    out.op = "last_child" /\ toks # <<>> /\ ChildToks(toks) # {} =>
      /\ IsElement(out.res, toks, SetMax(ChildToks(toks)))
      /\ out.res.xpath = ChildPath(toks, SetMax(ChildToks(toks)), MarkLast)

\* C7: last_child has returned bytes that lie inside a comment
C7_LastChildInsideComment ==
    /\ out.op = "last_child"
    /\ ChildToks(toks) # {}
    /\ out.res.kind = "ok"
    /\ out.res.found
    /\ \E i \in InsideTok(toks, out.res.offset) : TokKind(toks[i]) = "comment"

\* C8: for a well-formed document whose root has exactly one child element,
\* first_child and last_child return the same offset and element_text.
C8_OnlyChildSameBoundaries ==
    toks # <<>> /\ Cardinality(ChildToks(toks)) = 1 =>
      /\ out.op = "first_child" =>
           LET l == get_last_child_internal(file)
           IN  /\ out.res.kind = "ok" /\ l.kind = "ok"
               /\ out.res.offset = l.offset
               /\ out.res.element_text = l.element_text
      /\ out.op = "last_child" =>
           LET fc == get_first_child_internal(file)
           IN  /\ out.res.kind = "ok" /\ fc.kind = "ok"
               /\ out.res.offset = fc.offset
               /\ out.res.element_text = fc.element_text

\* C8: the root has one child, and last_child has returned another offset
\* than first_child does
C8_OnlyChildDiffers ==
    /\ out.op = "last_child"
    /\ Cardinality(ChildToks(toks)) = 1
    /\ out.res.kind = "ok"
    /\ get_first_child_internal(file).kind = "ok"
    /\ out.res.offset # get_first_child_internal(file).offset

C10_ChildlessRootIsError ==
    out.op \in {"first_child", "last_child"} /\ ChildToks(toks) = {} =>
      out.res.kind = "err"

\* C10: the root has no child elements and last_child has returned a
\* found=true result
C10_LastChildOfChildlessRoot ==
    /\ out.op = "last_child"
    /\ toks # <<>>
    /\ ChildToks(toks) = {}
    /\ out.res.kind = "ok"
    /\ out.res.found

\* the offsets of the document body: from the end of the root's opening tag
\* to the start of its closing tag (none when the root is self-closing)
BodyOffsets(ts) ==
    IF ts = <<>> \/ TokKind(ts[RootTok(ts)]) # "open" THEN {}
    ELSE TokEnd(ts, RootTok(ts))..TokStart(ts, CloseOf(ts, RootTok(ts)))

Recorded(offset) == ReplayStack(file, NewReader(0, FALSE), offset, <<>>)

\* C12: find_ancestor with a depth greater than or equal to the number of
\* ancestors recorded at child_offset returns the out-of-range error; a
\* result is returned only for a depth below that number and carries the path
\* of exactly that depth, never that of a clamped one.
C12_DepthOutOfRange ==
    out.op = "find_ancestor" =>
      /\ out.args[2] >= Len(Recorded(out.args[1])) =>
           out.res = Err("Ancestor depth is out of range")
      /\ out.res.kind = "ok" =>
           /\ out.args[2] < Len(Recorded(out.args[1]))
           /\ out.res.xpath =
                PathOf(StackNames(SubSeq(Recorded(out.args[1]), 1, out.args[2] + 1)))

\* C12: find_ancestor was called with a depth equal to the number of recorded
\* ancestors, one past the deepest of them, and has returned the error
C12_DepthJustOutOfRange ==
    /\ out.op = "find_ancestor"
    /\ Len(Recorded(out.args[1])) >= 1
    /\ out.args[2] = Len(Recorded(out.args[1]))
    /\ out.res = Err("Ancestor depth is out of range")

\* the name of the tag whose '<' is at offset off
NameAt(off) == extract_tag_name_from_bytes(Slice(file, off + 1, Len(file)))

\* C13: for any match returned by search, for any start_offset, resolve_path
\* applied to the returned offset and the matched element's name equals the
\* xpath the match reported.
C13_ResolvePathAgreesWithSearch ==
    Done("A") /\ how["A"] = "match" /\ result["A"].kind = "ok" =>
      resolve_xpath(file, result["A"].offset, NameAt(result["A"].offset))
        = result["A"].xpath

\* C13: a search from offset 0 has matched the root element, and resolve_path
\* for the returned offset begins with two slashes
C13_RootPathHasTwoSlashes ==
    /\ Done("A")
    /\ how["A"] = "match"
    /\ call["A"].start_offset = 0
    /\ result["A"].offset = ElemStart(toks, RootTok(toks))
    /\ result["A"].xpath = <<"/">> \o TokName(toks[RootTok(toks)])
    /\ resolve_xpath(file, result["A"].offset, NameAt(result["A"].offset))
         = <<"/", "/">> \o TokName(toks[RootTok(toks)])

\* the last segment of a path: what follows its last '/'
RECURSIVE LastSegment(_)
LastSegment(path) ==
    IF path = <<>> \/ path[Len(path)] = "/" THEN <<>>
    ELSE Append(LastSegment(SubSeq(path, 1, Len(path) - 1)), path[Len(path)])

\* C14: for any element found by search, the bytes read at the returned
\* offset begin with '<' followed by the name of the matched tag.
C14_OffsetIsAtOpeningBracket ==
    Done("A") /\ how["A"] = "match" /\ result["A"].kind = "ok" =>
      LET name == LastSegment(result["A"].xpath)
      IN  /\ name # <<>>
          /\ read_chunk_internal(file, result["A"].offset, 1 + Len(name))
               = <<"<">> \o name

\* C14: the search has matched a tag that follows a line break, so that the
\* position reported for it is past its '<'
C14_MatchAfterText ==
    /\ Done("A")
    /\ how["A"] = "match"
    /\ result["A"].kind = "ok"
    /\ \E i \in 2..Len(toks) :
          /\ toks[i - 1] = "nl"
          /\ IsElemTok(toks[i])
          /\ result["A"].offset = TokStart(toks, i)

\* the elements that start at or after off
ElementsFrom(ts, off) == {i \in 1..Len(ts) : IsElemTok(ts[i]) /\ TokStart(ts, i) >= off}

\* C15: an empty query matches every element, for every selector: a search
\* with an empty query returns the first element at or after start_offset.
C15_EmptyQueryMatchesAll ==
    Done("A") /\ call["A"].query = <<>> =>
      IF ElementsFrom(toks, call["A"].start_offset) = {}
      THEN result["A"] = NotFound
      ELSE IsElement(result["A"], toks, SetMin(ElementsFrom(toks, call["A"].start_offset)))

\* C15: a search from offset 0 with an empty query and the selector id has
\* passed over the root, which has no id attribute, and returned a later
\* element
C15_EmptyQuerySkipsRoot ==
    /\ Done("A")
    /\ call["A"].query = <<>>
    /\ call["A"].search_type = TypeId
    /\ call["A"].start_offset = 0
    /\ result["A"].kind = "ok"
    /\ result["A"].found
    /\ result["A"].offset > ElemStart(toks, RootTok(toks))

(***************************************************************************)
(* The matcher on its own: search lowercases the query and the selector    *)
(* and hands them to element_matches_bytes with the tag it has just read.  *)
(***************************************************************************)
MaxAttrs == 2

MatchNames == {<<"a">>, <<"B">>, <<"a", "b">>}
AttrKeys == {<<"i", "d">>, <<"I", "D">>, <<"t", "a", "g">>, <<"b">>}
AttrValues == {<<>>, <<"a">>, <<"A", "b">>}
MatchQueries == {<<>>, <<"a">>, <<"B">>, <<"a", "b">>}
Selectors == SearchTypes \cup {<<"I", "D">>, <<"b">>}

\* the attribute lists of a well-formed tag: no key twice
AttrLists ==
    UNION {{l \in [1..n -> [key : AttrKeys, value : AttrValues]] :
               \A i, j \in 1..n : i # j => l[i].key # l[j].key} : n \in 0..MaxAttrs}

\* the bytes between '<' and '>' of the open tag name key="value" ...
RECURSIVE TagContent(_, _)
TagContent(name, attrs) ==
    IF attrs = <<>> THEN name
    ELSE TagContent(name \o <<" ">> \o attrs[1].key \o <<"=", "\"">> \o attrs[1].value \o <<"\"">>,
                    Tail(attrs))

MatchElement ==
    /\ Quiet
    /\ \E name \in MatchNames, attrs \in AttrLists, query \in MatchQueries, search_type \in Selectors :
          out' = [op |-> "matches", args |-> <<name, attrs, query, search_type>>,
                  res |-> element_matches_bytes(EmitStart(TagContent(name, attrs)),
                                                LowerAll(query), LowerAll(search_type))]
    /\ Frame

InitMatch == InitOn({<<>>})

NextMatch ==
    \/ MatchElement
    \/ Return

SpecMatch == InitMatch /\ [][NextMatch]_vars

\* n is a substring of h, letter case ignored
IsSubstring(h, n) ==
    \E i \in 0..(Len(h) - Len(n)) : \A j \in 1..Len(n) : Lower(h[i + j]) = Lower(n[j])

\* the matcher as documented
MatchesAsDocumented(name, attrs, query, search_type) ==
    CASE LowerAll(search_type) \in {<<>>, TypeTag} -> IsSubstring(name, query)
      [] LowerAll(search_type) = TypeAny ->
            \/ IsSubstring(name, query)
            \/ \E i \in 1..Len(attrs) :
                  LowerAll(attrs[i].key) \in AnyKeys /\ IsSubstring(attrs[i].value, query)
      [] OTHER ->
            \E i \in 1..Len(attrs) :
                  /\ LowerAll(attrs[i].key) = LowerAll(search_type)
                  /\ IsSubstring(attrs[i].value, query)

\* C16: the matcher decides as documented: with the selector tag or empty
\* the query is a substring of the tag name and no attribute is consulted,
\* with any it is a substring of the tag name or of the value of an attribute
\* of the allow-list, with another selector S it is a substring of the value
\* of the attribute S (letter case ignored throughout).
C16_MatcherAsDocumented ==
    out.op = "matches" =>
      out.res = MatchesAsDocumented(out.args[1], out.args[2], out.args[3], out.args[4])

\* C16: under the selector tag an element matched although the query is not
\* in its tag name
C16_TagSelectorReadsAttribute ==
    /\ out.op = "matches"
    /\ out.args[4] = TypeTag
    /\ ~IsSubstring(out.args[1], out.args[3])
    /\ out.res

\* C17: every progress value a search emits is an integer in 0..100, for
\* every file length (0 included) and every start_offset (at or beyond the
\* file length included).
C17_ProgressIsPercentage ==
    \A p \in Procs : \A i \in 1..Len(progress[p]) : progress[p][i] \in 0..100

\* C17: a search of a file that is not empty, started beyond its end, has
\* emitted a value above 100
C17_ProgressAbove100 ==
    /\ pc["A"] \in {"read", "done"}
    /\ Len(file) > 0
    /\ call["A"].start_offset > Len(file)
    /\ progress["A"] # <<>>
    /\ progress["A"][1] > 100

\* C18: no operation changes the content or the length of the file.
C18_FileNeverChanges == [][file' = file]_vars

\* C18: a command has run to its result on a file that is not empty, and the
\* file still holds the bytes it was written with
C18_FileIntactAfterCommand ==
    /\ out.op \in {"open", "read_raw", "first_child", "last_child", "resolve_path", "find_ancestor"}
    /\ Len(file) > 0
    /\ file = Render(toks)

\* C19: within one search the progress is emitted only when the integer
\* percentage has increased: the emitted sequence never decreases, and every
\* emission other than the final 100 is strictly greater than the one before.
C19_ProgressOnlyIncreases ==
    \A p \in Procs : \A i \in 2..Len(progress[p]) :
       /\ progress[p][i - 1] <= progress[p][i]
       /\ \/ progress[p][i - 1] < progress[p][i]
          \/ i = Len(progress[p]) /\ progress[p][i] = 100

\* C19: a search has returned after emitting a value and then a smaller one
C19_ProgressDecreased ==
    /\ Done("A")
    /\ Len(progress["A"]) = 2
    /\ progress["A"][2] < progress["A"][1]

\* the number of tokens a reader that started at offset 0 has read when it
\* stands at pos
ReadUpTo(ts, pos) == Cardinality({i \in 1..Len(ts) : TokEnd(ts, i) <= pos})

\* the position of a reader that started at offset 0 before it reads token
\* i: the read of a text has taken the '<' that follows it
PosBefore(ts, i) ==
    IF i > 1 /\ TokKind(ts[i - 1]) = "text" THEN TokStart(ts, i) + 1 ELSE TokStart(ts, i)

\* the number of tokens read by a replay from offset 0 that stops at the
\* first position at or after target
ReadBefore(ts, target) == Cardinality({i \in 1..Len(ts) : PosBefore(ts, i) < target})

\* C20: in every forward scan from offset 0 (search with start_offset 0, the
\* replay of resolve_path and of find_ancestor) the stack lists exactly the
\* elements opened and not yet closed by the tags read so far: an open tag
\* pushes, a close tag pops, a self-closing tag leaves it as it is.
C20_StackIsOpenChain ==
    /\ (call["A"].start_offset = 0 /\ pc["A"] \in {"check", "read"}) =>
          stack["A"] = Ancestors(toks, ReadUpTo(toks, reader["A"].pos) + 1)
    /\ (call["A"].start_offset = 0 /\ pc["A"] = "end") =>
          stack["A"] = Ancestors(toks, ReadUpTo(toks, endscan["A"].initial_pos) + 1)
    /\ out.op \in {"resolve_path", "find_ancestor"} =>
          StackNames(Recorded(out.args[1])) = Ancestors(toks, ReadBefore(toks, out.args[1]) + 1)

\* C20: a search from offset 0 has read the root's open tag, the open tag of
\* a child and its close tag, and is about to read on
C20_ChildPushedAndPopped ==
    /\ pc["A"] = "check"
    /\ call["A"].start_offset = 0
    /\ ReadUpTo(toks, reader["A"].pos) = 3
    /\ TokKind(toks[1]) = "open"
    /\ TokKind(toks[2]) = "open"
    /\ TokKind(toks[3]) = "close"
    /\ Len(stack["A"]) = 1

\* the open tag a search has matched and is locating the end of
MatchedOpen(p) ==
    CHOOSE i \in 1..Len(toks) :
       /\ TokKind(toks[i]) = "open"
       /\ TokEnd(toks, i) = call[p].start_offset + endscan[p].initial_pos

\* the tags of the given kind and name written after token i and read by
\* the reader of search p
ReadSince(p, i, kind, name) ==
    {j \in (i + 1)..Len(toks) :
        /\ TokEnd(toks, j) <= call[p].start_offset + reader[p].pos
        /\ TokKind(toks[j]) = kind
        /\ TokName(toks[j]) = name}

\* C21: after an open tag named N is matched the depth counter starts at 1,
\* goes up on every open tag named N, down on every close tag named N, and
\* is left alone by other tags and by self-closing tags; the end reported for
\* a well-formed element is the position just after the close tag of the
\* matched open tag, also with same-named elements nested in it.
C21_EndIsAfterMatchingClose ==
    pc["A"] = "end" =>
      /\ endscan["A"].depth =
            1 + Cardinality(ReadSince("A", MatchedOpen("A"), "open", endscan["A"].name))
              - Cardinality(ReadSince("A", MatchedOpen("A"), "close", endscan["A"].name))
      /\ EndPosLoop(file, reader["A"], endscan["A"].depth, endscan["A"].initial_pos,
                    endscan["A"].name, Len(file), call["A"].start_offset)
            = ElemEnd(toks, MatchedOpen("A"))

\* C21: the end scan of a matched element has read the open tag of a nested
\* element of the same name and its close tag, and goes on
C21_NestedSameNameRead ==
    /\ pc["A"] = "end"
    /\ endscan["A"].depth = 1
    /\ ReadSince("A", MatchedOpen("A"), "open", endscan["A"].name) # {}
    /\ ReadSince("A", MatchedOpen("A"), "close", endscan["A"].name) # {}

\* the number of newline bytes in the first o bytes of f
Newlines(f, o) == Cardinality({k \in 1..o : f[k] = "\n"})

\* res is a found result whose line is that of its offset
LineIsOfOffset(res) ==
    (res.kind = "ok" /\ res.found) =>
       /\ res.offset <= Len(file)
       /\ res.line_number = 1 + Newlines(file, res.offset)

\* C22: for every found result, line_number is 1 plus the number of newline
\* bytes in the file range [0, offset), offset being the exact start of the
\* returned element, however many chunks the range is read in.
C22_LineNumberCountsNewlines ==
    /\ Done("A") => LineIsOfOffset(result["A"])
    /\ out.op \in {"first_child", "last_child", "find_ancestor"} => LineIsOfOffset(out.res)

\* C22: a search has returned an element that starts after a newline and
\* beyond the first chunk of the line count
C22_LineCountedOverChunks ==
    /\ Done("A")
    /\ result["A"].kind = "ok"
    /\ result["A"].found
    /\ result["A"].offset > line_buffer_len
    /\ result["A"].line_number = 2

\* the result of command op on the file f with the arguments args
ResultOf(f, op, args) ==
    CASE op = "open" -> Len(f)
      [] op = "read_raw" -> read_chunk_internal(f, args[1], args[2])
      [] op = "first_child" -> get_first_child_internal(f)
      [] op = "last_child" -> get_last_child_internal(f)
      [] op = "resolve_path" -> resolve_xpath(f, args[1], args[2])
      [] op = "find_ancestor" -> find_parent_internal(f, args[1], args[2])

\* a step of cancel(): the flag and nothing else of the program
IsCancelStep == cancelled' /\ UNCHANGED <<file, pc, call, reader, stack, progress, result, out>>

\* the invocation of a search
IsSearchInvocation == \E p \in Procs : pc[p] = "idle" /\ pc'[p] = "check"

\* C23: the cancellation flag is written only by search (reset to false at
\* its invocation) and by cancel (set to true); first_child, last_child,
\* resolve_path, find_ancestor, open and read_raw leave it as it is, and
\* their results are those of the file and the arguments alone, whatever the
\* flag holds.
C23_FlagOnlySearchAndCancel ==
    [][/\ cancelled' # cancelled =>
             IF cancelled' THEN IsCancelStep ELSE IsSearchInvocation
       /\ (out.op = "" /\ out'.op # "") =>
             /\ cancelled' = cancelled
             /\ out'.res = ResultOf(file, out'.op, out'.args)]_vars

\* C23: last_child has returned an element while the flag is set
C23_LastChildWhileCancelled ==
    /\ cancelled
    /\ out.op = "last_child"
    /\ out.res.kind = "ok"
    /\ out.res.found

(***************************************************************************)
(* The same program on files that need not be well formed: every sequence  *)
(* of tokens.                                                              *)
(***************************************************************************)
MaxTokensAny == 2

InitAny == InitOn(SeqsUpTo(TokenIds, MaxTokensAny))

SpecAny == InitAny /\ [][Next]_vars

\* res is not the panic of an underflow, and the boundaries of a found
\* result lie within the file in their order
InOrder(res) ==
    /\ res.kind # "panic"
    /\ (res.kind = "ok" /\ res.found) =>
          /\ res.offset + Len(res.element_text) <= Len(file)
          /\ Len(res.context_before) <= res.offset
          /\ res.offset + Len(res.element_text) + Len(res.context_after) <= Len(file)

\* C24: for every approximate range that search, first_child, last_child or
\* find_ancestor hands to the boundary resolver, exact_start <= exact_end <=
\* file_len, so that exact_end - exact_start, file_len - fwd_start and
\* file_len - exact_end never underflow.
C24_BoundariesInOrder ==
    /\ \A p \in Procs : InOrder(result[p])
    /\ out.op \in {"first_child", "last_child", "find_ancestor"} => InOrder(out.res)

\* C24: a search has returned an element whose open tag is never closed: its
\* end is the end of the file
C24_UnclosedElementEndsAtEof ==
    /\ Done("A")
    /\ result["A"].kind = "ok"
    /\ result["A"].found
    /\ result["A"].offset + Len(result["A"].element_text) = Len(file)
    /\ OpenAfter(toks, Len(toks)) \notin {<<>>, <<"#">>}

(***************************************************************************)
(* get_last_child_internal window by window, on files that need not be     *)
(* well formed.  While the scan is in flight out holds its locals:         *)
(* args = <<current_pos, depth, last_tag_end, root_name>>.                 *)
(***************************************************************************)
MaxTokensBack == 3

\* a window of no bytes
read_size_zero(current_pos) == 0

\* std::cmp::min(current_pos, chunk_size as u64)
ReadSize(current_pos) == Min(current_pos, chunk_size)

\* the for loop over one window [current_pos, current_pos + read_size) from
\* index i down: the function returns res (done), or the window is used up
RECURSIVE BackWindow(_, _, _, _, _, _, _, _)
BackWindow(f, len, current_pos, read_size, i, depth, last_tag_end, root_name) ==
    IF i < 0
    THEN [done |-> FALSE, res |-> NotFound, depth |-> depth,
          last_tag_end |-> last_tag_end, root_name |-> root_name]
    ELSE IF ByteAt(f, current_pos + i) # "<"
    THEN BackWindow(f, len, current_pos, read_size, i - 1, depth, last_tag_end, root_name)
    ELSE
      With(ParseTagAt(f, len, current_pos + i, current_pos + read_size), LAMBDA t :
      LET abs_start == current_pos + i
          Returns(r) == [done |-> TRUE, res |-> r, depth |-> depth,
                         last_tag_end |-> last_tag_end, root_name |-> root_name]
      IN
      CASE ~t.some ->
             BackWindow(f, len, current_pos, read_size, i - 1, depth, last_tag_end, root_name)
        [] t.some /\ t.kind = "Close" ->
             BackWindow(f, len, current_pos, read_size, i - 1, depth + 1,
                        IF depth + 1 = 2 THEN abs_start + t.len ELSE last_tag_end,
                        IF depth + 1 = 1 THEN t.name ELSE root_name)
        [] t.some /\ t.kind = "Open" ->
             IF depth - 1 = 1 /\ last_tag_end # -1
             THEN Returns(extract_and_build_result(f, len, abs_start, last_tag_end,
                      <<"/">> \o root_name \o <<"/">> \o t.name \o MarkLast))
             ELSE IF depth - 1 = 0 THEN Returns(Err("No last child found (root exited)"))
             ELSE BackWindow(f, len, current_pos, read_size, i - 1, depth - 1,
                             last_tag_end, root_name)
        [] t.some /\ t.kind = "Empty" ->
             IF depth = 1
             THEN Returns(extract_and_build_result(f, len, abs_start, abs_start + t.len,
                      <<"/">> \o root_name \o <<"/">> \o t.name \o MarkLast))
             ELSE BackWindow(f, len, current_pos, read_size, i - 1, depth,
                             last_tag_end, root_name))

\* the invocation up to the loop
LastChildBegin ==
    /\ Quiet
    /\ IF Len(file) = 0
       THEN out' = [op |-> "last_child", args |-> <<>>, res |-> Err("File is empty")]
       ELSE out' = [op |-> "last_child_scan", args |-> <<Len(file), 0, -1, <<>>>>, res |-> <<>>]
    /\ Frame

\* the test of the while loop and one window
LastChildWindow ==
    /\ out.op = "last_child_scan"
    /\ IF out.args[1] = 0
       THEN out' = [op |-> "last_child", args |-> <<>>, res |-> Err("Last child not found")]
       ELSE \E read_size \in {ReadSize(out.args[1])} :
            \E w \in {BackWindow(file, Len(file), out.args[1] - read_size, read_size,
                                 read_size - 1, out.args[2], out.args[3], out.args[4])} :
               IF w.done
               THEN out' = [op |-> "last_child", args |-> <<>>, res |-> w.res]
               ELSE out' = [out EXCEPT !.args = <<out.args[1] - read_size, w.depth,
                                                  w.last_tag_end, w.root_name>>]
    /\ Frame

LastChildReturn ==
    /\ out.op = "last_child"
    /\ out' = NoOut
    /\ Frame

InitBack == InitOn(SeqsUpTo(TokenIds, MaxTokensBack))

NextBack ==
    \/ LastChildBegin
    \/ LastChildWindow
    \/ LastChildReturn

\* the loop runs on as long as it has not returned
SpecBack == InitBack /\ [][NextBack]_vars /\ WF_vars(LastChildWindow)

\* C25: the backward scan of last_child terminates for every finite file,
\* well formed or not: each window strictly decreases the current position
\* until it reaches 0, and the operation ends with a found result or with an
\* error.
C25_BackwardScanTerminates ==
    /\ [][(out.op = "last_child_scan" /\ out'.op = "last_child_scan") =>
             (out'.args[1] < out.args[1] /\ out'.args[1] >= 0)]_vars
    /\ [](out.op = "last_child" =>
             \/ out.res.kind = "err"
             \/ out.res.kind = "ok" /\ out.res.found)
    /\ (out.op = "last_child_scan") ~> (out.op = "last_child")

\* C25: the scan has done a window without returning and has bytes left
C25_SecondWindowPending ==
    /\ out.op = "last_child_scan"
    /\ out.args[1] > 0
    /\ out.args[1] < Len(file)

====
